---- MODULE Spec2Model ----
(***************************************************************************)
(* Model of src/app.py: the Streamlit road-surface assessment page.        *)
(*                                                                         *)
(* Confidence values are integer percent (0.40 is 40, 0.70 is 70); the     *)
(* progress scores 0.3 / 0.6 / 0.9 are 30 / 60 / 90.                       *)
(*                                                                         *)
(* Two specifications:                                                     *)
(*   SpecPure  applies the three helper functions to inputs drawn from     *)
(*             bounded sets;                                               *)
(*   Spec      is one browser session: every action is one whole run of    *)
(*             the script, triggered by a page load / rerun, an upload, a  *)
(*             removal of the upload, or a click on the analyze button.    *)
(***************************************************************************)
EXTENDS Integers, Sequences, FiniteSets, TLC

VARIABLES
    modelCache,       \* st.cache_resource entry of load_model()
    session_state,    \* st.session_state: a dictionary, key -> value
    uploaded_file,    \* value of the st.file_uploader widget
    rendered,         \* elements the last script run put on the page, in order
    lastRun,          \* history: trigger and outcome of the last script run
    lastInferred,     \* history: value returned by the latest model(img_path) call
    inferredHere,     \* history: that call was given the file now in the uploader
    lastCompleted,    \* history: results of the latest analysis that reached line 161
    op,               \* SpecPure: helper applied last
    arg,              \* SpecPure: its inputs
    ret               \* SpecPure: its return value

vars == <<modelCache, session_state,
          uploaded_file, rendered, lastRun, lastInferred, inferredHere,
          lastCompleted, op, arg, ret>>

sessionVars == <<modelCache, session_state,
                 uploaded_file, rendered, lastRun, lastInferred, inferredHere,
                 lastCompleted>>

pureVars == <<op, arg, ret>>

----------------------------------------------------------------------------
(* Bounds *)

MaxDet == 2          \* longest detection list the model returns
NumImages == 2       \* distinct valid image files the user can upload

----------------------------------------------------------------------------
(* Program constants *)

LowBelow == 40
ModerateBelow == 70
ScoreLow == 30
ScoreModerate == 60
ScoreSevere == 90

Tiers == {"Low", "Moderate", "Severe"}

\* confidence grid of the helper specification: 0.00 .. 1.00 in steps of 0.01
Grid == 0 .. 100

\* class names the helper specification feeds to recommendation()
Labels == {"crack", "pothole", "manhole", "unknown_label"}

\* severity arguments the helper specification feeds to the two lookups
TierArgs == Tiers \cup {"low", "Critical"}

----------------------------------------------------------------------------
(* Helper functions, lines 74-127 *)

\* a variant with the first comparison inclusive
assess_severity_le(conf) ==
    IF conf <= LowBelow
    THEN [tier |-> "Low", css |-> "low", score |-> ScoreLow,
          explanation |-> "Minor surface damage with no immediate safety risk."]
    ELSE IF conf < ModerateBelow
    THEN [tier |-> "Moderate", css |-> "moderate", score |-> ScoreModerate,
          explanation |-> "Damage may worsen and affect ride quality."]
    ELSE [tier |-> "Severe", css |-> "severe", score |-> ScoreSevere,
          explanation |-> "Critical damage posing serious safety risks."]

\* a variant whose last branch tests conf > 0.70 and falls through at 0.70
assess_severity_gap(conf) ==
    IF conf < LowBelow
    THEN [tier |-> "Low", css |-> "low", score |-> ScoreLow,
          explanation |-> "Minor surface damage with no immediate safety risk."]
    ELSE IF conf < ModerateBelow
    THEN [tier |-> "Moderate", css |-> "moderate", score |-> ScoreModerate,
          explanation |-> "Damage may worsen and affect ride quality."]
    ELSE IF conf > ModerateBelow
    THEN [tier |-> "Severe", css |-> "severe", score |-> ScoreSevere,
          explanation |-> "Critical damage posing serious safety risks."]
    ELSE [tier |-> "None", css |-> "None", score |-> 0, explanation |-> "None"]

\* a variant that returns the style tag in the place of the tier
assess_severity_css(conf) ==
    IF conf < LowBelow
    THEN [tier |-> "low", css |-> "low", score |-> ScoreLow,
          explanation |-> "Minor surface damage with no immediate safety risk."]
    ELSE IF conf < ModerateBelow
    THEN [tier |-> "moderate", css |-> "moderate", score |-> ScoreModerate,
          explanation |-> "Damage may worsen and affect ride quality."]
    ELSE [tier |-> "severe", css |-> "severe", score |-> ScoreSevere,
          explanation |-> "Critical damage posing serious safety risks."]

assess_severity(conf) ==
    IF conf < LowBelow
    THEN [tier |-> "Low", css |-> "low", score |-> ScoreLow,
          explanation |-> "Minor surface damage with no immediate safety risk."]
    ELSE IF conf < ModerateBelow
    THEN [tier |-> "Moderate", css |-> "moderate", score |-> ScoreModerate,
          explanation |-> "Damage may worsen and affect ride quality."]
    ELSE [tier |-> "Severe", css |-> "severe", score |-> ScoreSevere,
          explanation |-> "Critical damage posing serious safety risks."]

\* the dictionary of lines 83-99
actions ==
    [crack   |-> [Low      |-> "Seal cracks to prevent water penetration.",
                  Moderate |-> "Crack filling followed by surface overlay.",
                  Severe   |-> "Immediate resurfacing required."],
     pothole |-> [Low      |-> "Temporary patch repair recommended.",
                  Moderate |-> "Permanent patch repair with compaction.",
                  Severe   |-> "Urgent full-depth reconstruction required."],
     manhole |-> [Low      |-> "Routine inspection advised.",
                  Moderate |-> "Level adjustment and reinforcement needed.",
                  Severe   |-> "Immediate structural correction required."]]

DefaultAction == "Standard maintenance recommended."

\* dict.get(key, default); the empty dict {} is the function with empty domain
DictGet(d, key, default) == IF key \in DOMAIN d THEN d[key] ELSE default

\* a variant that indexes the inner dictionary by the label and the outer by
\* the severity
recommendation_swapped(label, severity) ==
    DictGet(DictGet(actions, severity, <<>>), label, DefaultAction)

recommendation(label, severity) ==
    DictGet(DictGet(actions, label, <<>>), severity, DefaultAction)

Step(n, text) == [num |-> n, text |-> text]

\* a variant whose Low procedure repeats the number 3
StepsTable_renumbered ==
    [Low |->
        [raised |-> "",
         title |-> "**Reconstruction Process (Low Severity)**",
         steps |-> << Step(1, "Visual inspection"),
                      Step(2, "Cleaning debris"),
                      Step(3, "Crack sealing / minor patching"),
                      Step(3, "Periodic monitoring") >>],
     Moderate |->
        [raised |-> "",
         title |-> "**Reconstruction Process (Moderate Severity)**",
         steps |-> << Step(1, "Detailed site inspection"),
                      Step(2, "Marking damaged zones"),
                      Step(3, "Crack filling / patch repair"),
                      Step(4, "Surface overlay"),
                      Step(5, "Compaction and leveling") >>],
     Severe |->
        [raised |-> "",
         title |-> "**Reconstruction Process (Severe Severity)**",
         steps |-> << Step(1, "Traffic diversion and safety barricades"),
                      Step(2, "Removal of damaged layers"),
                      Step(3, "Structural base repair"),
                      Step(4, "Full resurfacing"),
                      Step(5, "Quality and load inspection") >>]]

\* the dictionary literal of lines 103-127: per severity, the heading and the
\* numbered lines of the markdown text
StepsTable ==
    [Low |->
        [raised |-> "",
         title |-> "**Reconstruction Process (Low Severity)**",
         steps |-> << Step(1, "Visual inspection"),
                      Step(2, "Cleaning debris"),
                      Step(3, "Crack sealing / minor patching"),
                      Step(4, "Periodic monitoring") >>],
     Moderate |->
        [raised |-> "",
         title |-> "**Reconstruction Process (Moderate Severity)**",
         steps |-> << Step(1, "Detailed site inspection"),
                      Step(2, "Marking damaged zones"),
                      Step(3, "Crack filling / patch repair"),
                      Step(4, "Surface overlay"),
                      Step(5, "Compaction and leveling") >>],
     Severe |->
        [raised |-> "",
         title |-> "**Reconstruction Process (Severe Severity)**",
         steps |-> << Step(1, "Traffic diversion and safety barricades"),
                      Step(2, "Removal of damaged layers"),
                      Step(3, "Structural base repair"),
                      Step(4, "Full resurfacing"),
                      Step(5, "Quality and load inspection") >>]]

\* outcome of indexing the dictionary with a key it does not hold
KeyError == [raised |-> "KeyError", title |-> "", steps |-> <<>>]

reconstruction_steps(severity) ==
    IF severity \in DOMAIN StepsTable THEN StepsTable[severity] ELSE KeyError

----------------------------------------------------------------------------
(* Values of the session specification *)

\* Python's None
None == [kind |-> "None"]

\* the uploader holds no file
NoFile == [kind |-> "none", name |-> 0]

\* files that decode as an image; the name does not tell the content
ValidFiles == [kind : {"image"}, name : 1 .. NumImages]

\* files that do not: Image.open raises UnidentifiedImageError
\* ("unidentified"), or open/convert raises another exception ("broken")
BadFiles == [kind : {"unidentified", "broken"}, name : {0}]

\* detections the model returns in the session specification: one per
\* severity range, two with a class name the table knows and one without
SessDetections ==
    { [label |-> "pothole", conf |-> 70],
      [label |-> "crack", conf |-> 40],
      [label |-> "unknown_label", conf |-> 39] }

BoxLists == UNION { [1 .. n -> SessDetections] : n \in 0 .. MaxDet }

\* what model(img_path) can return: results[0].boxes is None, or a list of
\* at most MaxDet boxes
Results ==
    [kind : {"Results"}, boxes_none : {FALSE}, boxes : BoxLists]
    \cup {[kind |-> "Results", boxes_none |-> TRUE, boxes |-> <<>>]}

\* Image.fromarray(results[0].plot())
Plot(r) == [kind |-> "Image", plot_of |-> r]

\* str.upper() on the class names
Upper(label) ==
    CASE label = "crack" -> "CRACK"
      [] label = "pothole" -> "POTHOLE"
      [] label = "manhole" -> "MANHOLE"
      [] label = "unknown_label" -> "UNKNOWN_LABEL"

Elem(kind) == [kind |-> kind]

Has(out, kind) == \E i \in 1 .. Len(out) : out[i].kind = kind

OfKind(out, kind) == SelectSeq(out, LAMBDA e : e.kind = kind)

----------------------------------------------------------------------------
(* The script, top to bottom *)

\* lines 17-24: a key the session does not hold yet gets its initial value
SetDefault(ss, key, value) ==
    IF key \in DOMAIN ss THEN ss ELSE ss @@ (key :> value)

EmptyText == [kind |-> "str", issues |-> <<>>, header |-> FALSE]

InitSessionState(ss) ==
    SetDefault(SetDefault(SetDefault(SetDefault(ss,
        "analysis_done", FALSE),
        "results", None),
        "annotated", None),
        "report_text", EmptyText)

\* lines 61-69: the cached load_model(); loads is whether YOLO("best.pt")
\* returns when the function body runs
LoadModel(cache, loads) ==
    IF cache = "unloaded"
    THEN IF loads THEN "loaded" ELSE "none"
    ELSE cache

\* a variant that lets the script continue without a model
ModelMissingStops_off(cache) == FALSE

\* lines 70-71: st.stop() when model is None
ModelMissingStops(cache) == cache = "none"

\* a variant whose except clauses swallow the exception
UploadError_silent(file) == <<>>

\* lines 165-168: the error shown when the upload does not open as an image
UploadError(file) ==
    IF file.kind = "unidentified"
    THEN << [kind |-> "error", text |-> "Uploaded file is not a valid image."] >>
    ELSE << [kind |-> "error", text |-> "Unexpected error"] >>

\* a variant that assigns the three fields together, once plotting is done
AnalyzeStore_together(ss, r, outcome) ==
    IF outcome = "ok"
    THEN [ss EXCEPT !.results = r, !.annotated = Plot(r), !.analysis_done = TRUE]
    ELSE ss

\* lines 152-161: the assignments made before the handler returns or raises.
\* outcome names how far the try block gets: image.save raises, model()
\* raises, plot()/fromarray raises, or nothing raises
AnalyzeStore(ss, r, outcome) ==
    CASE outcome = "save_raises" -> ss
      [] outcome = "inference_raises" -> ss
      [] outcome = "plot_raises" -> [ss EXCEPT !.results = r]
      [] outcome = "ok" ->
            [ss EXCEPT !.results = r, !.annotated = Plot(r),
                       !.analysis_done = TRUE]

\* lines 162-163
AnalyzeError(outcome) ==
    IF outcome = "ok"
    THEN <<>>
    ELSE << [kind |-> "error", text |-> "Error during analysis"] >>

\* the markdown block, the progress bar and the expander of lines 199-214
\* for the box shown as number n, given what assess_severity returned
BlockOf(n, box, sev) ==
    [kind |-> "block",
     damage |-> n,
     type |-> Upper(box.label),
     conf |-> box.conf,
     css |-> sev.css,
     severity |-> sev.tier,
     explanation |-> sev.explanation,
     action |-> recommendation(box.label, sev.tier),
     score |-> sev.score,
     expander |-> n,
     steps |-> reconstruction_steps(sev.tier)]

\* a variant that labels the blocks from 0
Block_from_zero(i, box) == BlockOf(i, box, assess_severity(box.conf))

\* lines 186-214 for the box at 0-based position i.  conf is the value
\* handed to the :.2f format
Block(i, box) == BlockOf(i + 1, box, assess_severity(box.conf))

IssueOf(box, sev) ==
    [label |-> Upper(box.label),
     severity |-> sev.tier,
     condition |-> sev.explanation,
     action |-> recommendation(box.label, sev.tier)]

\* lines 190-197: the entry appended to issues
Issue(box) == IssueOf(box, assess_severity(box.conf))

\* the 1-based position of the first box whose reconstruction_steps lookup
\* raises KeyError, 0 when none does
FirstRaising(boxes) ==
    IF \A i \in 1 .. Len(boxes) : Block(i - 1, boxes[i]).steps.raised = ""
    THEN 0
    ELSE CHOOSE i \in 1 .. Len(boxes) :
            /\ Block(i - 1, boxes[i]).steps.raised # ""
            /\ \A j \in 1 .. i - 1 : Block(j - 1, boxes[j]).steps.raised = ""

\* the loop of lines 185-214 when it ends in iteration stop (0: it runs
\* over all the boxes)
LoopUpTo(boxes, stop) ==
    [issues |-> [i \in 1 .. (IF stop = 0 THEN Len(boxes) ELSE stop) |->
                    Issue(boxes[i])],
     out |-> [i \in 1 .. (IF stop = 0 THEN Len(boxes) ELSE stop) |->
                    Block(i - 1, boxes[i])]
             \o (IF stop = 0 THEN <<>> ELSE << Elem("exception") >>),
     raised |-> stop # 0]

\* lines 185-214: the loop over enumerate(boxes).  An iteration appends
\* its issue and writes its block; a KeyError in reconstruction_steps ends
\* the loop and the script in that iteration
DisplayLoop(boxes) == LoopUpTo(boxes, FirstRaising(boxes))

\* lines 220-227: the report; the Date & Time line holds the wall clock and
\* is not modelled
ReportText(issues) == [kind |-> "str", issues |-> issues, header |-> TRUE]

\* lines 184-217
DisplayBoxes(r) ==
    IF ~ r.boxes_none /\ Len(r.boxes) > 0
    THEN DisplayLoop(r.boxes)
    ELSE [issues |-> <<>>, out |-> << Elem("no_damage") >>, raised |-> FALSE]

\* lines 172-179
DisplayTop(ss) ==
    << Elem("success"),
       [kind |-> "annotated_image", image |-> ss.annotated],
       Elem("subheader") >>

\* lines 219-233, reached unless the loop raised
DisplayEnd(ss, loop) ==
    IF loop.raised
    THEN [ss |-> ss, out |-> DisplayTop(ss) \o loop.out, raised |-> TRUE]
    ELSE [ss |-> [ss EXCEPT !.report_text = ReportText(loop.issues)],
          out |-> DisplayTop(ss) \o loop.out
                  \o << [kind |-> "download", data |-> ReportText(loop.issues)] >>,
          raised |-> FALSE]

\* lines 171-233
Display(ss) ==
    IF ~ ss.analysis_done
    THEN [ss |-> ss, out |-> <<>>, raised |-> FALSE]
    ELSE DisplayEnd(ss, DisplayBoxes(ss.results))

\* what a run that does not reach line 157 leaves: the session as it was
Idle(ss, out) ==
    [ss |-> ss, out |-> out, invoked |-> FALSE, returned |-> FALSE,
     completed |-> FALSE]

\* lines 143-145
UploadShown(file) ==
    << [kind |-> "uploaded_image", name |-> file.name], Elem("button") >>

\* lines 135-168.  click is st.button's return value; r is what model()
\* returns if it is called and returns.  invoked, returned and completed
\* tell whether line 157 was reached, whether the call returned, and whether
\* line 161 was reached
UploadAndAnalyze(ss, cache, file, click, r, outcome) ==
    IF file.kind = "none"
    THEN Idle(ss, <<>>)
    ELSE IF file.kind # "image"
    THEN Idle(ss, UploadError(file))
    ELSE IF ~ click
    THEN Idle(ss, UploadShown(file))
    ELSE IF cache # "loaded"
    THEN Idle(ss, Append(UploadShown(file),
                         [kind |-> "error", text |-> "Model not loaded."]))
    ELSE [ss |-> AnalyzeStore(ss, r, outcome),
          out |-> UploadShown(file) \o AnalyzeError(outcome),
          invoked |-> outcome # "save_raises",
          returned |-> outcome \in {"plot_raises", "ok"},
          completed |-> outcome = "ok"]

\* lines 27-69: the title and, without a model, load_model's error
PageHead(cache) ==
    IF cache = "none"
    THEN << Elem("title"), [kind |-> "error", text |-> "Error loading model"] >>
    ELSE << Elem("title") >>

\* lines 171-240 after the upload block left up
Finish(cache, up, disp) ==
    [ss |-> disp.ss,
     cache |-> cache,
     out |-> PageHead(cache) \o << Elem("uploader") >> \o up.out \o disp.out
             \o (IF disp.raised THEN <<>> ELSE << Elem("footer") >>),
     invoked |-> up.invoked,
     returned |-> up.returned,
     completed |-> up.completed]

\* lines 129-240
Body(cache, up) == Finish(cache, up, Display(up.ss))

\* lines 17-240 once load_model has returned
AfterLoad(ss, cache, file, click, r, outcome) ==
    IF ModelMissingStops(cache)
    THEN [ss |-> ss, cache |-> cache, out |-> PageHead(cache), invoked |-> FALSE,
          returned |-> FALSE, completed |-> FALSE]
    ELSE Body(cache, UploadAndAnalyze(ss, cache, file, click, r, outcome))

\* one run of the whole script
Script(ss0, cache0, loads, file, click, r, outcome) ==
    AfterLoad(InitSessionState(ss0), LoadModel(cache0, loads),
              file, click, r, outcome)

----------------------------------------------------------------------------
(* Spec: one browser session *)

Outcomes == {"save_raises", "inference_raises", "plot_raises", "ok"}

\* the session before the first run of the script
InitSession ==
    /\ modelCache = "unloaded"
    /\ session_state = <<>>
    /\ uploaded_file = NoFile
    /\ rendered = <<>>
    /\ lastRun = [click |-> FALSE, outcome |-> "none", invoked |-> FALSE]
    /\ lastInferred = None
    /\ inferredHere = FALSE
    /\ lastCompleted = None

\* the state a script run s leaves; replaced is whether the run was
\* triggered by a change of the uploader's file
Commit(s, file, replaced, click, r, outcome) ==
    /\ session_state' = s.ss
    /\ modelCache' = s.cache
    /\ uploaded_file' = file
    /\ rendered' = s.out
    /\ lastRun' = [click |-> click,
                   outcome |-> IF click THEN outcome ELSE "none",
                   invoked |-> s.invoked]
    /\ lastInferred' = IF s.returned THEN r ELSE lastInferred
    /\ inferredHere' = IF s.returned THEN TRUE
                       ELSE IF replaced THEN FALSE ELSE inferredHere
    /\ lastCompleted' = IF s.completed THEN r ELSE lastCompleted
    /\ UNCHANGED pureVars

\* a script run with the given widget values
Run(file, replaced, click, r, outcome, loads) ==
    Commit(Script(session_state, modelCache, loads, file, click, r, outcome),
           file, replaced, click, r, outcome)

\* what model(img_path) can return for the file in the uploader: the weights
\* and the file fix it, so a second call on the same file returns what the
\* first returned
Inferable == IF inferredHere THEN {lastInferred} ELSE Results

\* the first run of the script in the process: load_model's body runs
FirstLoad ==
    /\ modelCache = "unloaded"
    /\ \E loads \in BOOLEAN :
          Run(uploaded_file, FALSE, FALSE, None, "none", loads)

\* a rerun that changes no widget (the download button, a page refresh)
Rerun ==
    /\ modelCache # "unloaded"
    /\ Run(uploaded_file, FALSE, FALSE, None, "none", TRUE)

\* the user puts a file into the uploader
Upload ==
    /\ Has(rendered, "uploader")
    /\ \E f \in ValidFiles \cup BadFiles :
          Run(f, TRUE, FALSE, None, "none", TRUE)

\* the user removes the file from the uploader
RemoveUpload ==
    /\ Has(rendered, "uploader")
    /\ uploaded_file # NoFile
    /\ Run(NoFile, TRUE, FALSE, None, "none", TRUE)

\* the page offers the analyze button
CanAnalyze == Has(rendered, "button")

\* the user clicks the analyze button and image.save raises
AnalyzeSaveRaises ==
    /\ CanAnalyze
    /\ Run(uploaded_file, FALSE, TRUE, None, "save_raises", TRUE)

\* the user clicks the analyze button and model(img_path) raises
AnalyzeInferenceRaises ==
    /\ CanAnalyze
    /\ Run(uploaded_file, FALSE, TRUE, None, "inference_raises", TRUE)

\* the user clicks the analyze button and plot() or fromarray raises
AnalyzePlotRaises ==
    /\ CanAnalyze
    /\ \E r \in Inferable : Run(uploaded_file, FALSE, TRUE, r, "plot_raises", TRUE)

\* the user clicks the analyze button and the handler reaches line 161
AnalyzeCompletes ==
    /\ CanAnalyze
    /\ \E r \in Inferable : Run(uploaded_file, FALSE, TRUE, r, "ok", TRUE)

Init ==
    /\ InitSession
    /\ op = "none"
    /\ arg = [conf |-> 0, label |-> "crack", severity |-> "Low"]
    /\ ret = [fn |-> "none"]

Next ==
    \/ FirstLoad
    \/ Rerun
    \/ Upload
    \/ RemoveUpload
    \/ AnalyzeSaveRaises
    \/ AnalyzeInferenceRaises
    \/ AnalyzePlotRaises
    \/ AnalyzeCompletes

Spec == Init /\ [][Next]_vars

----------------------------------------------------------------------------
(* SpecPure: the helpers applied to inputs from bounded sets *)

NoRet == [fn |-> "none"]

InitPure ==
    /\ op = "none"
    /\ arg \in [conf : Grid, label : Labels, severity : TierArgs]
    /\ ret = NoRet
    /\ InitSession

CallAssessSeverity ==
    /\ op = "none"
    /\ op' = "assess_severity"
    /\ ret' = [fn |-> "assess_severity", val |-> assess_severity(arg.conf)]
    /\ UNCHANGED <<arg, sessionVars>>

CallRecommendation ==
    /\ op = "none"
    /\ op' = "recommendation"
    /\ ret' = [fn |-> "recommendation",
               val |-> recommendation(arg.label, arg.severity)]
    /\ UNCHANGED <<arg, sessionVars>>

CallReconstructionSteps ==
    /\ op = "none"
    /\ op' = "reconstruction_steps"
    /\ ret' = [fn |-> "reconstruction_steps",
               val |-> reconstruction_steps(arg.severity)]
    /\ UNCHANGED <<arg, sessionVars>>

NextPure ==
    \/ CallAssessSeverity
    \/ CallRecommendation
    \/ CallReconstructionSteps

SpecPure == InitPure /\ [][NextPure]_vars

----------------------------------------------------------------------------
(* Properties of the helpers, under SpecPure *)

\* C1: for every confidence c on the grid, assess_severity(c) is Low with
\* score 0.30 when c < 0.40, Moderate with score 0.60 when 0.40 <= c < 0.70,
\* and Severe with score 0.90 when c >= 0.70 (so 0.40 is Moderate, 0.70 is
\* Severe, 0.0 is Low and 1.0 is Severe).
C1_SeverityThresholds ==
    op = "assess_severity" =>
        LET c == arg.conf
            v == ret.val
        IN /\ c < 40 => v.tier = "Low" /\ v.score = 30
           /\ (40 <= c /\ c < 70) => v.tier = "Moderate" /\ v.score = 60
           /\ c >= 70 => v.tier = "Severe" /\ v.score = 90
           /\ c = 40 => v.tier = "Moderate"
           /\ c = 70 => v.tier = "Severe"
           /\ c = 0 => v.tier = "Low"
           /\ c = 100 => v.tier = "Severe"

C1_Witness ==
    /\ op = "assess_severity"
    /\ arg.conf = 40
    /\ ret.val.tier = "Moderate"
    /\ ret.val.score = 60

\* the confidences of the grid that assess_severity maps to tier t
Preimage(t) == { c \in Grid : assess_severity(c).tier = t }

\* C2: confidence -> tier is a total partition of the grid into three
\* contiguous half-open intervals: the confidence just classified got one
\* of the three tiers, the confidences with that tier are exactly those of
\* an interval [a, b), and each of the three tiers is the tier of some
\* confidence.
C2_TierPartition ==
    op = "assess_severity" =>
        LET P == Preimage(ret.val.tier)
            a == CHOOSE c \in P : \A d \in P : c <= d
            b == 1 + CHOOSE c \in P : \A d \in P : d <= c
        IN /\ ret.val.tier \in {"Low", "Moderate", "Severe"}
           /\ arg.conf \in P
           /\ P = { c \in 0 .. 100 : a <= c /\ c < b }
           /\ \A t \in {"Low", "Moderate", "Severe"} :
                 \E c \in 0 .. 100 : assess_severity(c).tier = t

C2_Witness ==
    /\ op = "assess_severity"
    /\ arg.conf = 70
    /\ ret.val.tier = "Severe"
    /\ 69 \notin Preimage("Severe")

\* the table of section 4.2, as (label, tier, text) entries
C3_Entries ==
    { <<"crack", "Low", "Seal cracks to prevent water penetration.">>,
      <<"crack", "Moderate", "Crack filling followed by surface overlay.">>,
      <<"crack", "Severe", "Immediate resurfacing required.">>,
      <<"pothole", "Low", "Temporary patch repair recommended.">>,
      <<"pothole", "Moderate", "Permanent patch repair with compaction.">>,
      <<"pothole", "Severe", "Urgent full-depth reconstruction required.">>,
      <<"manhole", "Low", "Routine inspection advised.">>,
      <<"manhole", "Moderate", "Level adjustment and reinforcement needed.">>,
      <<"manhole", "Severe", "Immediate structural correction required.">> }

\* C3: recommendation(label, tier) is the table entry when the label is
\* crack, pothole or manhole and the tier is Low, Moderate or Severe, and
\* the default "Standard maintenance recommended." for every other label or
\* tier; every call returns.
C3_RecommendationTable ==
    op = "recommendation" =>
        /\ ret.fn = "recommendation"
        /\ IF /\ arg.label \in {"crack", "pothole", "manhole"}
              /\ arg.severity \in {"Low", "Moderate", "Severe"}
           THEN <<arg.label, arg.severity, ret.val>> \in C3_Entries
           ELSE ret.val = "Standard maintenance recommended."

C3_Witness ==
    /\ op = "recommendation"
    /\ arg.label = "pothole"
    /\ arg.severity = "Severe"
    /\ ret.val = "Urgent full-depth reconstruction required."

\* C4: reconstruction_steps(tier) is a sequence of steps numbered 1..k with
\* k = 4 for Low, 5 for Moderate and 5 for Severe, whatever the label and
\* the confidence of the detection.
C4_StepCounts ==
    (op = "reconstruction_steps" /\ arg.severity \in {"Low", "Moderate", "Severe"}) =>
        LET steps == ret.val.steps
            k == IF arg.severity = "Low" THEN 4 ELSE 5
        IN /\ ret.val.raised = ""
           /\ Len(steps) = k
           /\ \A i \in 1 .. Len(steps) : steps[i].num = i
           /\ \A i, j \in 1 .. Len(steps) : i # j => steps[i].text # steps[j].text

C4_Witness ==
    /\ op = "reconstruction_steps"
    /\ arg.severity = "Low"
    /\ arg.label = "pothole"
    /\ arg.conf = 100
    /\ Len(ret.val.steps) = 4

----------------------------------------------------------------------------
(* Properties of the session, under Spec *)

\* the display section ran in the last script run
Displayed == Has(rendered, "subheader")

\* the detection list held in the session results (empty when boxes is None)
HeldBoxes ==
    IF session_state.results.boxes_none THEN <<>> ELSE session_state.results.boxes

\* class names in upper case, as the page and the report show them
C5_Type ==
    [crack |-> "CRACK", pothole |-> "POTHOLE", manhole |-> "MANHOLE",
     unknown_label |-> "UNKNOWN_LABEL"]

\* C5: when the display section runs over a detection list of length N, the
\* page holds exactly N per-detection blocks in the order of the list,
\* block i labelled "Damage i", and the report's Detected Issues section
\* holds exactly N entries in the same order; for N = 0 there is no block
\* and the section is empty.
C5_BlocksFollowDetections ==
    Displayed =>
        LET boxes == HeldBoxes
            N == Len(boxes)
            blocks == OfKind(rendered, "block")
            reports == OfKind(rendered, "download")
        IN /\ Len(blocks) = N
           /\ \A i \in 1 .. Len(blocks) :
                 /\ blocks[i].damage = i
                 /\ blocks[i].expander = i
                 /\ i <= N => /\ blocks[i].type = C5_Type[boxes[i].label]
                              /\ blocks[i].conf = boxes[i].conf
           /\ Len(reports) = 1
           /\ Len(reports[1].data.issues) = N
           /\ \A i \in 1 .. N :
                 /\ reports[1].data.issues[i].label = C5_Type[boxes[i].label]
                 /\ reports[1].data.issues[i].severity = blocks[i].severity
                 /\ reports[1].data.issues[i].action = blocks[i].action
           /\ session_state.report_text = reports[1].data
           /\ N = 0 => ~ Has(rendered, "block") /\ reports[1].data.issues = <<>>

C5_Witness ==
    /\ Displayed
    /\ Len(HeldBoxes) = 2
    /\ HeldBoxes[1] # HeldBoxes[2]
    /\ Len(OfKind(rendered, "block")) = 2
    /\ OfKind(rendered, "block")[2].damage = 2

\* C6 as stated: whatever a run shows derives from an analysis, requested
\* in that run, of the image uploaded in that run.
C6_NothingOutlivesRequest ==
    Displayed =>
        /\ uploaded_file.kind = "image"
        /\ lastRun.click
        /\ lastRun.outcome = "ok"

\* C6, amended: session state outlives the request.  The blocks and the
\* report a run shows derive from the latest analysis request of the
\* session whose model call returned, the annotated image from the latest
\* request that completed, in this run or an earlier one; before the first
\* completed request nothing is shown.
C6_ShownFromLatestAnalysis ==
    /\ Displayed =>
          LET boxes == IF lastInferred.boxes_none THEN <<>> ELSE lastInferred.boxes
              blocks == OfKind(rendered, "block")
              images == OfKind(rendered, "annotated_image")
              reports == OfKind(rendered, "download")
          IN /\ lastCompleted # None
             /\ Len(images) = 1
             /\ images[1].image = [kind |-> "Image", plot_of |-> lastCompleted]
             /\ session_state.results = lastInferred
             /\ Len(blocks) = Len(boxes)
             /\ \A i \in 1 .. Len(boxes) :
                   /\ blocks[i].type = C5_Type[boxes[i].label]
                   /\ blocks[i].conf = boxes[i].conf
             /\ Len(reports) = 1
             /\ Len(reports[1].data.issues) = Len(boxes)
    /\ lastCompleted = None =>
          /\ ~ Displayed
          /\ ~ Has(rendered, "annotated_image")
          /\ ~ Has(rendered, "block")
          /\ ~ Has(rendered, "download")

\* results of an earlier request to analyse another image are shown while
\* the latest request, whose plotting failed, supplies the blocks
C6_Witness ==
    /\ Displayed
    /\ ~ lastRun.click
    /\ uploaded_file.kind = "none"
    /\ lastInferred # lastCompleted
    /\ Len(OfKind(rendered, "block")) = 2

\* C7: a run whose upload does not decode as an image reports an error and
\* skips the analysis: the model is not called, results, annotated and
\* analysis_done keep the values they had (their initial values if the
\* session had none), and the run shows no uploaded image, no analyze
\* button and nothing that the session did not already hold.
C7_BadUploadSkipsAnalysis ==
    [][ uploaded_file'.kind \in {"unidentified", "broken"} =>
          LET before == InitSessionState(session_state)
          IN /\ Has(rendered', "error")
             /\ ~ lastRun'.invoked
             /\ lastInferred' = lastInferred
             /\ lastCompleted' = lastCompleted
             /\ session_state'.results = before.results
             /\ session_state'.annotated = before.annotated
             /\ session_state'.analysis_done = before.analysis_done
             /\ ~ Has(rendered', "uploaded_image")
             /\ ~ Has(rendered', "button")
             /\ Has(rendered', "subheader") => before.analysis_done
      ]_vars

C7_Witness ==
    /\ uploaded_file.kind = "unidentified"
    /\ Has(rendered, "error")
    /\ ~ lastRun.invoked
    /\ session_state.analysis_done
    /\ Has(rendered, "block")

\* C8: when load_model returns None every run stops before the upload
\* handling: no uploader, button, result display, report or footer is on
\* the page, the model is never called, and the session state holds its
\* initial values.
C8_NoModelNoFlow ==
    modelCache = "none" =>
        /\ \A i \in 1 .. Len(rendered) :
              rendered[i].kind \in {"title", "error"}
        /\ uploaded_file.kind = "none"
        /\ ~ lastRun.click
        /\ ~ lastRun.invoked
        /\ lastInferred = None
        /\ lastCompleted = None
        /\ DOMAIN session_state =
              {"analysis_done", "results", "annotated", "report_text"}
        /\ session_state.analysis_done = FALSE
        /\ session_state.results = None
        /\ session_state.annotated = None
        /\ session_state.report_text.issues = <<>>
        /\ ~ session_state.report_text.header

C8_Witness ==
    /\ modelCache = "none"
    /\ Has(rendered, "error")
    /\ session_state.analysis_done = FALSE

\* C9: the lookup in reconstruction_steps never fails: every block on the
\* page carries one of the three tiers and the steps of that tier, and no
\* run ends in an exception: a run that displays results reaches the footer.
C9_TierAlwaysKnown ==
    /\ ~ Has(rendered, "exception")
    /\ \A i \in 1 .. Len(rendered) :
          rendered[i].kind = "block" =>
             /\ rendered[i].severity \in {"Low", "Moderate", "Severe"}
             /\ rendered[i].steps.raised = ""
             /\ Len(rendered[i].steps.steps) >= 4
    /\ Displayed => Has(rendered, "footer")

C9_Witness ==
    /\ Displayed
    /\ Len(OfKind(rendered, "block")) = 2
    /\ OfKind(rendered, "block")[1].severity = "Moderate"
    /\ OfKind(rendered, "block")[2].severity = "Severe"
    /\ Len(OfKind(rendered, "block")[2].steps.steps) = 5

\* C10: whenever results are displayed, the stored annotated image is the
\* plot of the stored results, both from one successful inference run.
C10_AnnotatedMatchesResults ==
    ("analysis_done" \in DOMAIN session_state /\ session_state.analysis_done) =>
        session_state.annotated = [kind |-> "Image", plot_of |-> session_state.results]

====
